---- MODULE Spec2Model ----
(***************************************************************************)
(* A model of infra/bisector.py: one run of main() over a file system that *)
(* holds the OSS-Fuzz project tree, the scratch directory LOCAL_GIT_DIR    *)
(* and the process's current directory, and over a remote repository that  *)
(* `git clone` copies.  Text (project names, Dockerfile lines, commit      *)
(* refs) is a sequence of one-character strings, so that split, strip and  *)
(* the substring test are computed and not assumed.                        *)
(***************************************************************************)
EXTENDS Integers, Sequences, FiniteSets, TLC

VARIABLES project_name, commit_new, commit_old, bug,
          projects, scratch, clones, cwd,
          pc, repo_name, new_exists, old_exists, returned, proc,
          ret, exc, printed, exitcode

vars == <<project_name, commit_new, commit_old, bug,
          projects, scratch, clones, cwd,
          pc, repo_name, new_exists, old_exists, returned, proc,
          ret, exc, printed, exitcode>>

-----------------------------------------------------------------------------
(* Bounds and the environment                                              *)

\* Number of commits on the default branch of the remote repository.
MainlineLen == 3

\* ".git" as text.
DotGit == <<".", "g", "i", "t">>

\* The project names a run may be given.
ProjectNames == { <<"c">>, <<"u", "c">> }

\* The Dockerfiles a project directory may hold (each a sequence of lines as
\* readlines() returns them, newline included).
DockerFiles ==
  << \* 1: the URL in the middle of a RUN line
     << <<"F", " ", "x", "\n">>,
        <<"R", " ", "g", " ", "h", "/", "c">> \o DotGit \o <<" ", "/", "s", "\n">> >>,
     \* 2: the URL is the last token of its line
     << <<"R", " ", "g", " ", "h", "/", "c">> \o DotGit \o <<"\n">> >>,
     \* 3: the name and .git, but no slash before the name
     << <<"R", " ", "h", "u", "c">> \o DotGit \o <<"\n">> >>,
     \* 4: two matching tokens on one line
     << <<"R", " ", "v", "/", "c">> \o DotGit \o <<" ", "h", "/", "c">> \o DotGit \o <<"\n">> >>,
     \* 5: an empty Dockerfile
     << >>,
     \* 6: a double space, and a URL for the project "uc" on the second line
     << <<"R", " ", "h", "/", "x">> \o DotGit \o <<"\n">>,
        <<"R", " ", " ", "h", "/", "u", "c">> \o DotGit \o <<" ", "/", "s", "\n">>,
        <<"R", " ", "w", "/", "u", "c">> \o DotGit \o <<"\n">> >>,
     \* 7: a token that contains "/c.git" but does not end with it
     << <<"R", " ", "h", "/", "c">> \o DotGit \o <<"h", "u", "b", " ", "x", "\n">> >> >>

\* projects[p] = 0: no such project; k > 0: its Dockerfile is DockerFiles[k].
NoProject == 0

\* The commits of the remote repository: "1" .. MainlineLen on the default
\* branch (master), and "f", a commit that only the branch feature holds.
Mainline == { ToString(k) : k \in 1..MainlineLen }

Commits == Mainline \cup {"f"}

Index(c) == CHOOSE k \in 1..MainlineLen : ToString(k) = c

\* The parents of a commit ("f" forks off the first commit).
Parents(c) ==
  IF c = "f" THEN {"1"}
  ELSE IF Index(c) = 1 THEN {} ELSE { ToString(Index(c) - 1) }

RECURSIVE Ancestors(_)
\* Every commit reachable from c by parent edges, c included.
Ancestors(c) == {c} \cup UNION { Ancestors(p) : p \in Parents(c) }

isAncestor(a, b) == a \in Ancestors(b)

\* What `git clone` leaves: one local branch for the remote's default
\* branch; every other branch of the remote is a remote-tracking ref only.
LocalBranches == [ master |-> ToString(MainlineLen) ]

HexDigits == {"0", "1", "2", "3", "4", "5", "6", "7", "8", "9",
              "a", "b", "c", "d", "e", "f"}

\* The refs a run may be given for --commit_new and --commit_old.
Refs == { <<c>> : c \in Commits } \cup
        { <<"e">>, <<"z">>, <<>>, <<" ">>, <<" ", " ">>, <<"\t">> }

-----------------------------------------------------------------------------
(* Text                                                                    *)

\* needle in hay (Python's `in` on strings).
Contains(needle, hay) ==
  \E i \in 0..(Len(hay) - Len(needle)) :
     \A j \in 1..Len(needle) : hay[i + j] = needle[j]

RECURSIVE Split(_, _)
\* s.split(sep) for a one-character sep: every sep ends a part, so two seps
\* in a row give an empty part.
Split(s, sep) ==
  IF \A i \in 1..Len(s) : s[i] # sep THEN << s >>
  ELSE LET k == CHOOSE i \in 1..Len(s) :
                   s[i] = sep /\ \A j \in 1..(i - 1) : s[j] # sep
       IN  << SubSeq(s, 1, k - 1) >> \o Split(SubSeq(s, k + 1, Len(s)), sep)

RECURSIVE LStrip(_, _)
LStrip(s, ch) == IF s # <<>> /\ Head(s) = ch THEN LStrip(Tail(s), ch) ELSE s

RECURSIVE RStrip(_, _)
RStrip(s, ch) ==
  IF s # <<>> /\ s[Len(s)] = ch THEN RStrip(SubSeq(s, 1, Len(s) - 1), ch) ELSE s

\* s.strip(ch)
Strip(s, ch) == RStrip(LStrip(s, ch), ch)

-----------------------------------------------------------------------------
(* Values                                                                  *)

\* Python's None, and a text value, for a variable that holds either.
None == [some |-> FALSE, text |-> <<>>]

Some(t) == [some |-> TRUE, text |-> t]

\* The value main() returns: None, 1, or (never, in this code) a commit.
RetNone == [type |-> "NoneType", val |-> "None"]

RetInt(n) == [type |-> "int", val |-> ToString(n)]

RetCommit(c) == [type |-> "str", val |-> c]

NoProc == [stdout |-> <<>>, stderr |-> <<>>, status |-> 0 - 1]

-----------------------------------------------------------------------------
(* git                                                                     *)

\* How git reads a ref: the commit it names, a well-formed object name that
\* names nothing, or a malformed name.
Resolve(ref) ==
  IF Len(ref) = 1 /\ ref[1] \in Commits
    THEN [kind |-> "commit", commit |-> ref[1]]
  ELSE IF ref # <<>> /\ \A i \in 1..Len(ref) : ref[i] \in HexDigits
    THEN [kind |-> "unknown", commit |-> ""]
  ELSE [kind |-> "malformed", commit |-> ""]

\* The messages git writes, as text.
NoSuchCommit ==
  <<"e", "r", "r", "o", "r", ":", " ", "n", "o", " ", "s", "u", "c", "h", " ", "c", "o", "m", "m", "i", "t">>

MalformedObjectName ==
  <<"e", "r", "r", "o", "r", ":", " ", "m", "a", "l", "f", "o", "r", "m", "e", "d">>
     \o <<" ", "o", "b", "j", "e", "c", "t", " ", "n", "a", "m", "e">>

\* `git branch --contains ref` in a clone: the local branches whose tip has
\* the commit as an ancestor go to stdout, one line each; a complaint about
\* the ref goes to stderr, with exit status 129.
GitBranchContains(ref) ==
  LET r == Resolve(ref) IN
  IF r.kind = "commit"
    THEN [stdout |-> IF isAncestor(r.commit, LocalBranches.master)
                       THEN <<"*", " ", "m", "a", "s", "t", "e", "r", "\n">> ELSE << >>,
          stderr |-> << >>, status |-> 0]
  ELSE IF r.kind = "unknown"
    THEN [stdout |-> << >>,
          stderr |-> NoSuchCommit \o <<" ">> \o ref \o <<"\n">>, status |-> 129]
  ELSE [stdout |-> << >>,
        stderr |-> MalformedObjectName \o <<" ">> \o ref \o <<"\n">>, status |-> 129]

\* The directory `git clone url` creates: the last path component of the URL
\* without trailing white space and slashes and without a ".git" suffix.
RepoDir(url) ==
  LET a == RStrip(RStrip(RStrip(url, "\n"), " "), "/")
      b == IF Len(a) >= 4 /\ SubSeq(a, Len(a) - 3, Len(a)) = DotGit
             THEN SubSeq(a, 1, Len(a) - 4) ELSE a
      parts == Split(b, "/")
  IN  parts[Len(parts)]

-----------------------------------------------------------------------------
(* The functions of bisector.py                                            *)

\* helper._check_project_exists
_check_project_exists(name) == name \in DOMAIN projects /\ projects[name] # NoProject

\* The lines of the file at helper._get_dockerfile_path(name).
_get_dockerfile_path(name) == DockerFiles[projects[name]]

\* The scratch path, relative to the current directory.
LOCAL_GIT_DIR == "tmp_git"

\* The part of the file system the functions act on: what is at
\* LOCAL_GIT_DIR under the directory the process started in ("absent",
\* "file" or "dir"), the working copies inside it, and the current directory
\* ("orig": where the process started, "scratch": inside LOCAL_GIT_DIR).
FS == [scratch |-> scratch, clones |-> clones, cwd |-> cwd]

\* remove(path): a file or a directory goes away, anything else raises
\* ValueError.  The path is relative, so it names the scratch directory only
\* from the directory the process started in.
remove(path, fs) ==
  IF path = LOCAL_GIT_DIR /\ fs.cwd = "orig" /\ fs.scratch = "file"
    THEN [raised |-> "none", fs |-> [fs EXCEPT !.scratch = "absent"]]
  ELSE IF path = LOCAL_GIT_DIR /\ fs.cwd = "orig" /\ fs.scratch = "dir"
    THEN [raised |-> "none", fs |-> [fs EXCEPT !.scratch = "absent", !.clones = {}]]
  ELSE [raised |-> "ValueError", fs |-> fs]

RECURSIVE FirstPart(_, _)
\* The inner loop of infer_main_repo: the first part holding the needle.
FirstPart(parts, needle) ==
  IF parts = << >> THEN None
  ELSE IF Contains(needle, Head(parts)) THEN Some(Head(parts))
  ELSE FirstPart(Tail(parts), needle)

RECURSIVE FirstLine(_, _)
\* The outer loop of infer_main_repo over fp.readlines().
FirstLine(lines, needle) ==
  IF lines = << >> THEN None
  ELSE LET m == FirstPart(Split(Head(lines), " "), needle)
       IN  IF m.some THEN m ELSE FirstLine(Tail(lines), needle)

\* infer_main_repo looking for '<project_name>.git' without the slash.
infer_main_repo_no_slash(name) ==
  IF ~ _check_project_exists(name)
    THEN [raised |-> "ProjectNotFoundException", ret |-> << >>]
  ELSE LET m == FirstLine(_get_dockerfile_path(name), name \o DotGit)
       IN  IF m.some THEN [raised |-> "none", ret |-> m.text]
           ELSE [raised |-> "NoRepoFoundException", ret |-> << >>]

infer_main_repo(name) ==
  IF ~ _check_project_exists(name)
    THEN [raised |-> "ProjectNotFoundException", ret |-> << >>]
  ELSE LET m == FirstLine(_get_dockerfile_path(name), <<"/">> \o name \o DotGit)
       IN  IF m.some THEN [raised |-> "none", ret |-> m.text]
           ELSE [raised |-> "NoRepoFoundException", ret |-> << >>]

\* bytes.decode('ascii').strip('\n'): the bytes git writes are ASCII, so
\* decode keeps them; strip takes the newlines off both ends.
DecodeStrip(bytes) == Strip(bytes, "\n")

\* run_command_in_repo(command, project_name): chdir into the working copy
\* (a path relative to the current directory), run the command with only
\* stdout piped, chdir back, return (out, err).
run_command_in_repo(command, name, fs) ==
  IF ~ (fs.cwd = "orig" /\ fs.scratch = "dir" /\ name \in fs.clones)
    THEN [raised |-> "FileNotFoundError", fs |-> fs,
          returned |-> << >>, proc |-> NoProc]
  ELSE LET cur_dir == fs.cwd
           p   == GitBranchContains(command[4])
           out == Some(p.stdout)
           err == None
       IN  [raised |-> "none", fs |-> [fs EXCEPT !.cwd = cur_dir],
            returned |-> << IF out.some THEN Some(DecodeStrip(out.text)) ELSE out,
                            IF err.some THEN Some(DecodeStrip(err.text)) ELSE err >>,
            proc |-> p]

\* commit_exists that only looks for git's complaints in the output and
\* takes an empty output for a yes.
commit_exists_no_empty_test(commit, name, fs) ==
  IF Strip(commit, " ") = << >>
    THEN [raised |-> "none", ret |-> FALSE, fs |-> fs,
          returned |-> returned, proc |-> proc]
  ELSE LET r == run_command_in_repo(<<"git", "branch", "--contains", commit>>, name, fs) IN
       IF r.raised # "none"
         THEN [raised |-> r.raised, ret |-> FALSE, fs |-> r.fs,
               returned |-> returned, proc |-> proc]
       ELSE LET out == r.returned[1].text IN
            [raised |-> "none",
             ret |-> ~ (\/ Contains(NoSuchCommit, out)
                        \/ Contains(MalformedObjectName, out)),
             fs |-> r.fs, returned |-> r.returned, proc |-> r.proc]

commit_exists(commit, name, fs) ==
  IF Strip(commit, " ") = << >>
    THEN [raised |-> "none", ret |-> FALSE, fs |-> fs,
          returned |-> returned, proc |-> proc]
  ELSE LET r == run_command_in_repo(<<"git", "branch", "--contains", commit>>, name, fs) IN
       IF r.raised # "none"
         THEN [raised |-> r.raised, ret |-> FALSE, fs |-> r.fs,
               returned |-> returned, proc |-> proc]
       ELSE LET out == r.returned[1].text IN
            [raised |-> "none",
             ret |-> ~ (\/ Contains(NoSuchCommit, out)
                        \/ Contains(MalformedObjectName, out)
                        \/ out = << >>),
             fs |-> r.fs, returned |-> r.returned, proc |-> r.proc]

\* run_command_in_tmp(['git', 'clone', repo_name]): chdir into LOCAL_GIT_DIR,
\* check_call the clone, chdir back.  check_call raises when the command
\* fails, and the chdir back is then skipped.  Whether the clone succeeds is
\* the remote's and the network's choice.
run_command_in_tmp(command, fs, succeeds) ==
  IF ~ (fs.cwd = "orig" /\ fs.scratch = "dir")
    THEN [raised |-> "FileNotFoundError", fs |-> fs]
  ELSE LET cur_dir == fs.cwd
           inside  == [fs EXCEPT !.cwd = "scratch"]
       IN  IF ~ succeeds
             THEN [raised |-> "CalledProcessError", fs |-> inside]
           ELSE [raised |-> "none",
                 fs |-> [inside EXCEPT !.clones = @ \cup { RepoDir(command[3]) },
                                       !.cwd = cur_dir]]

\* os.mkdir(LOCAL_GIT_DIR)
mkdir(path, fs) ==
  IF path = LOCAL_GIT_DIR /\ fs.cwd = "orig" /\ fs.scratch = "absent"
    THEN [fs EXCEPT !.scratch = "dir", !.clones = {}]
  ELSE fs

\* clone_repo_local(repo_name): remove what is at LOCAL_GIT_DIR (a
\* ValueError is swallowed), make the directory, clone into it.
clone_repo_local(url, fs, succeeds) ==
  run_command_in_tmp(<<"git", "clone", url>>,
                     mkdir(LOCAL_GIT_DIR, remove(LOCAL_GIT_DIR, fs).fs), succeeds)

\* bisection_commit(commit_old, commit_new, project_name): a docstring and
\* no body, so it returns None.
bisection_commit(old, new, name) == RetNone

-----------------------------------------------------------------------------
(* One run of the program                                                  *)

Py(b) == IF b THEN "True" ELSE "False"

\* What main prints (without the values it formats in).
MsgProjectNotFound == "Error project was not found under oss fuzz project"

MsgNoRepoFound == "Error the main repo was not able to be inferred"

MsgNoCommitNew == "Error: your commit_new SHA does not exist in project"

MsgNoCommitOld == "Error: your commit_old SHA does not exist in project"

Init ==
  /\ project_name \in ProjectNames
  /\ commit_new \in Refs
  /\ commit_old \in Refs
  /\ bug \in 1..(MainlineLen - 1)
  /\ projects \in { [p \in ProjectNames |-> IF p = q THEN d ELSE NoProject] :
                      q \in ProjectNames, d \in 0..Len(DockerFiles) }
  /\ scratch \in {"absent", "file", "dir"}
  /\ clones \in (IF scratch = "dir" THEN { {}, { <<"c">> } } ELSE { {} })
  /\ cwd = "orig"
  /\ pc = "remove"
  /\ repo_name = << >>
  /\ new_exists = "unset"
  /\ old_exists = "unset"
  /\ returned = << >>
  /\ proc = NoProc
  /\ ret = [type |-> "unset", val |-> ""]
  /\ exc = "none"
  /\ printed = << >>
  /\ exitcode = 0 - 1

\* main, lines 79-83: remove the scratch copy a previous run left.
RemoveOld ==
  /\ pc = "remove"
  /\ LET fs == remove(LOCAL_GIT_DIR, FS).fs IN
       /\ scratch' = fs.scratch
       /\ clones' = fs.clones
       /\ cwd' = fs.cwd
  /\ pc' = "infer"
  /\ UNCHANGED <<project_name, commit_new, commit_old, bug, projects, repo_name,
                 new_exists, old_exists, returned, proc, ret, exc, printed,
                 exitcode>>

\* main, lines 85-93: infer the repository, or report and return 1.
Infer ==
  /\ pc = "infer"
  /\ LET r == infer_main_repo(project_name) IN
       IF r.raised = "ProjectNotFoundException"
         THEN /\ printed' = Append(printed, MsgProjectNotFound)
              /\ ret' = RetInt(1)
              /\ pc' = "returned"
              /\ UNCHANGED repo_name
       ELSE IF r.raised = "NoRepoFoundException"
         THEN /\ printed' = Append(printed, MsgNoRepoFound)
              /\ ret' = RetInt(1)
              /\ pc' = "returned"
              /\ UNCHANGED repo_name
       ELSE /\ repo_name' = r.ret
            /\ pc' = "clone"
            /\ UNCHANGED <<printed, ret>>
  /\ UNCHANGED <<project_name, commit_new, commit_old, bug, projects, scratch,
                 clones, cwd, new_exists, old_exists, returned, proc, exc,
                 exitcode>>

\* main, line 94: clone the repository into the scratch directory.
Clone ==
  /\ pc = "clone"
  /\ \E succeeds \in BOOLEAN :
       LET r == clone_repo_local(repo_name, FS, succeeds) IN
         /\ scratch' = r.fs.scratch
         /\ clones' = r.fs.clones
         /\ cwd' = r.fs.cwd
         /\ exc' = r.raised
         /\ pc' = IF r.raised = "none" THEN "check_new" ELSE "raised"
  /\ UNCHANGED <<project_name, commit_new, commit_old, bug, projects, repo_name,
                 new_exists, old_exists, returned, proc, ret, printed, exitcode>>

\* main, lines 97-99: commit_new must exist.
CheckNew ==
  /\ pc = "check_new"
  /\ LET r == commit_exists(commit_new, project_name, FS) IN
       /\ scratch' = r.fs.scratch
       /\ clones' = r.fs.clones
       /\ cwd' = r.fs.cwd
       /\ returned' = r.returned
       /\ proc' = r.proc
       /\ exc' = r.raised
       /\ IF r.raised # "none"
            THEN /\ pc' = "raised"
                 /\ UNCHANGED <<new_exists, printed, ret>>
          ELSE IF ~ r.ret
            THEN /\ new_exists' = Py(r.ret)
                 /\ printed' = Append(printed, MsgNoCommitNew)
                 /\ ret' = RetInt(1)
                 /\ pc' = "returned"
          ELSE /\ new_exists' = Py(r.ret)
               /\ pc' = "check_old"
               /\ UNCHANGED <<printed, ret>>
  /\ UNCHANGED <<project_name, commit_new, commit_old, bug, projects, repo_name,
                 old_exists, exitcode>>

\* The check of commit_old with its `return 1` left out: the error is
\* printed and main goes on.
CheckOld_no_return ==
  /\ pc = "check_old"
  /\ LET r == commit_exists(commit_old, project_name, FS) IN
       /\ scratch' = r.fs.scratch
       /\ clones' = r.fs.clones
       /\ cwd' = r.fs.cwd
       /\ returned' = r.returned
       /\ proc' = r.proc
       /\ exc' = r.raised
       /\ IF r.raised # "none"
            THEN /\ pc' = "raised"
                 /\ UNCHANGED <<old_exists, printed, ret>>
          ELSE /\ old_exists' = Py(r.ret)
               /\ printed' = IF r.ret THEN printed ELSE Append(printed, MsgNoCommitOld)
               /\ pc' = "bisect"
               /\ UNCHANGED ret
  /\ UNCHANGED <<project_name, commit_new, commit_old, bug, projects, repo_name,
                 new_exists, exitcode>>

\* main, lines 100-102: commit_old must exist.
CheckOld ==
  /\ pc = "check_old"
  /\ LET r == commit_exists(commit_old, project_name, FS) IN
       /\ scratch' = r.fs.scratch
       /\ clones' = r.fs.clones
       /\ cwd' = r.fs.cwd
       /\ returned' = r.returned
       /\ proc' = r.proc
       /\ exc' = r.raised
       /\ IF r.raised # "none"
            THEN /\ pc' = "raised"
                 /\ UNCHANGED <<old_exists, printed, ret>>
          ELSE IF ~ r.ret
            THEN /\ old_exists' = Py(r.ret)
                 /\ printed' = Append(printed, MsgNoCommitOld)
                 /\ ret' = RetInt(1)
                 /\ pc' = "returned"
          ELSE /\ old_exists' = Py(r.ret)
               /\ pc' = "bisect"
               /\ UNCHANGED <<printed, ret>>
  /\ UNCHANGED <<project_name, commit_new, commit_old, bug, projects, repo_name,
                 new_exists, exitcode>>

\* main, line 104: "# Begin bisection" is the last line of main; nothing
\* follows it, so main returns None.
BeginBisection ==
  /\ pc = "bisect"
  /\ ret' = RetNone
  /\ pc' = "returned"
  /\ UNCHANGED <<project_name, commit_new, commit_old, bug, projects, scratch,
                 clones, cwd, repo_name, new_exists, old_exists, returned, proc,
                 exc, printed, exitcode>>

\* The __main__ guard calls main() and drops its value: the process exits
\* with 0 when main returns and with 1 when an exception leaves it.
Exit ==
  /\ pc \in {"returned", "raised"}
  /\ exitcode' = IF pc = "raised" THEN 1 ELSE 0
  /\ pc' = "exited"
  /\ UNCHANGED <<project_name, commit_new, commit_old, bug, projects, scratch,
                 clones, cwd, repo_name, new_exists, old_exists, returned, proc,
                 ret, exc, printed>>

Next == RemoveOld \/ Infer \/ Clone \/ CheckNew \/ CheckOld \/ BeginBisection \/ Exit

Spec == Init /\ [][Next]_vars

-----------------------------------------------------------------------------
(* Properties                                                              *)

\* main has finished: it returned, an exception left it, or the process is gone.
Finished == pc \in {"returned", "raised", "exited"}

\* The clone of the project is where run_command_in_repo looks for it.
HasClone == scratch = "dir" /\ project_name \in clones

\* The ref names a commit of the cloned repository.
Exists(ref) == Resolve(ref).kind = "commit"

\* C1: a run whose commit_new or commit_old does not exist in the cloned
\* repository reports the error and returns 1 without reaching the bisection
\* step; the bisection step is reached only after both commit_exists checks
\* returned True.
C1_UnknownCommitRejected ==
  /\ pc = "bisect" =>
       /\ new_exists = "True" /\ old_exists = "True"
       /\ Exists(commit_new) /\ Exists(commit_old)
  /\ (HasClone /\ pc \in {"returned", "exited"}
        /\ ~ (Exists(commit_new) /\ Exists(commit_old))) =>
       /\ ret = RetInt(1)
       /\ printed \in { << MsgNoCommitNew >>, << MsgNoCommitOld >> }
       /\ ~ Exists(commit_new) => printed = << MsgNoCommitNew >>

\* A run that passed the check of commit_new and was rejected for a
\* commit_old that is a well-formed name of no commit.
C1_Witness ==
  /\ pc = "returned" /\ HasClone
  /\ Exists(commit_new) /\ Resolve(commit_old).kind = "unknown"
  /\ new_exists = "True" /\ old_exists = "False"
  /\ ret = RetInt(1)

\* C2: a run whose commit_old is not an ancestor of commit_new is rejected
\* before the search begins.
C2_NotAncestorRejected ==
  pc = "bisect" =>
    isAncestor(Resolve(commit_old).commit, Resolve(commit_new).commit)

\* C3: with the clone in place, commit_exists returns False and does not
\* raise for every ref that is empty, blank, malformed or names no commit.
C3_FailsClosed ==
  /\ (HasClone /\ pc \in {"check_old", "bisect", "returned", "raised", "exited"}
        /\ ~ Exists(commit_new)) =>
       new_exists = "False" /\ exc = "none"
  /\ (HasClone /\ pc \in {"bisect", "returned", "raised", "exited"}
        /\ new_exists = "True" /\ ~ Exists(commit_old)) =>
       old_exists = "False" /\ exc = "none"

\* commit_exists has answered False for a well-formed name of no commit, for
\* which git was run and complained on stderr.
C3_Witness ==
  /\ HasClone /\ pc = "returned"
  /\ Resolve(commit_new).kind = "unknown" /\ new_exists = "False"
  /\ proc.status = 129 /\ Contains(NoSuchCommit, proc.stderr)

\* C4: commit_exists returns True for every commit that exists in the local
\* clone, whichever branches contain it.
C4_ExistingCommitAccepted ==
  /\ (new_exists # "unset" /\ Exists(commit_new)) => new_exists = "True"
  /\ (old_exists # "unset" /\ Exists(commit_old)) => old_exists = "True"

\* The range is valid (commit_old a strict ancestor of commit_new, both on
\* the default branch) and the bug appears between them: absent up to commit
\* `bug`, present from the next commit on.
ValidRangeForBug ==
  /\ Exists(commit_old) /\ Exists(commit_new)
  /\ commit_old[1] \in Mainline /\ commit_new[1] \in Mainline
  /\ Index(commit_old[1]) <= bug /\ bug < Index(commit_new[1])

\* C5: for a valid range and a monotonic oracle, the run resolves to the
\* boundary commit (the last commit without the bug, or the first with it).
C5_Convergence ==
  (pc \in {"returned", "exited"} /\ HasClone /\ ValidRangeForBug) =>
    ret \in { RetCommit(ToString(bug)), RetCommit(ToString(bug + 1)) }

\* The reason a finished run failed, "none" when it did not.
Failure ==
  IF pc = "raised" \/ exc # "none" THEN exc
  ELSE IF printed # << >> THEN printed[1]
  ELSE "none"

\* C6: the exit code is 0 only when the run resolved a boundary commit, and
\* nonzero for every run that ended in a failure.
C6_ExitCode ==
  pc = "exited" =>
    /\ exitcode = 0 => ret.type = "str"
    /\ Failure # "none" => exitcode # 0

\* C7: whenever main finishes, the scratch directory no longer exists.
C7_ScratchReleased == Finished => scratch = "absent"

\* The first space-separated token of the Dockerfile that holds the needle:
\* a stretch of a line between spaces (or the line's ends) with no space in it.
IsToken(line, a, b) ==
  /\ \A k \in a..b : line[k] # " "
  /\ (a = 1 \/ line[a - 1] = " ")
  /\ (b = Len(line) \/ line[b + 1] = " ")

MatchingTokens(lines, needle) ==
  { m \in UNION { { <<i, a, b>> : a \in 1..Len(lines[i]), b \in 1..Len(lines[i]) } :
                  i \in 1..Len(lines) } :
      /\ m[2] <= m[3]
      /\ IsToken(lines[m[1]], m[2], m[3])
      /\ Contains(needle, SubSeq(lines[m[1]], m[2], m[3])) }

Before(m, n) == m[1] < n[1] \/ (m[1] = n[1] /\ m[2] <= n[2])

\* C8: infer_main_repo raises ProjectNotFoundException for a project that
\* does not exist, returns the first token of the Dockerfile that contains
\* '/<project_name>.git', and raises NoRepoFoundException when there is no
\* such token; in main either exception ends the run with 1 before a clone.
C8_InferOutcomes ==
  pc \notin {"remove", "infer"} =>
    IF projects[project_name] = NoProject
      THEN /\ printed = << MsgProjectNotFound >> /\ ret = RetInt(1)
           /\ pc \in {"returned", "exited"} /\ scratch = "absent" /\ exc = "none"
    ELSE LET lines == DockerFiles[projects[project_name]]
             M == MatchingTokens(lines, <<"/">> \o project_name \o DotGit)
         IN  IF M = {}
               THEN /\ printed = << MsgNoRepoFound >> /\ ret = RetInt(1)
                    /\ pc \in {"returned", "exited"} /\ scratch = "absent"
                    /\ exc = "none"
             ELSE /\ \E m \in M : /\ \A n \in M : Before(m, n)
                                  /\ repo_name = SubSeq(lines[m[1]], m[2], m[3])
                  /\ \A k \in 1..Len(printed) :
                       printed[k] \notin {MsgProjectNotFound, MsgNoRepoFound}

\* The repository was inferred from a Dockerfile with two matching tokens,
\* and the first one was taken.
C8_Witness ==
  /\ pc = "clone"
  /\ projects[project_name] = 4
  /\ repo_name = <<"v", "/", "c">> \o DotGit

\* C9: run_command_in_repo returns the captured stdout, the captured stderr
\* and the exit status of the command.
C9_ReturnsAllThree ==
  returned # << >> =>
    /\ Len(returned) = 3
    /\ returned[1] = Some(DecodeStrip(proc.stdout))
    /\ returned[2] = Some(DecodeStrip(proc.stderr))
    /\ returned[3] = proc.status

\* C10: the current directory after a call of run_command_in_repo or
\* run_command_in_tmp is what it was before the call, also when the call
\* raises.
C10_CwdUnchanged == cwd = "orig"

====
